---- MODULE Spec2Model ----
(***************************************************************************)
(* A model of the pelper helper library (src/pelper/pipe.py and            *)
(* src/pelper/misc.py): pipe, take, nth, cache, ignored, flatten and       *)
(* print_duration.                                                         *)
(* Each helper is exercised by its own specification; prog names the       *)
(* helper a behaviour exercises, and the variables of the other helpers    *)
(* stay at their idle values.                                              *)
(***************************************************************************)
EXTENDS Integers, Sequences, FiniteSets, TLC

VARIABLES
    prog,        \* the helper this behaviour exercises
    status,      \* the call's outcome: "running" | "returned" | "raised"
    exc,         \* the exception that left the call, "" when none
    \* ---- pipe(data, *functions)
    functions,   \* the steps handed to pipe
    initial,     \* the value of data at the call
    data,        \* the local data of pipe
    i,           \* number of loop iterations of pipe begun so far
    log,         \* the invocations of caller-supplied callables, in order
    \* ---- cache(f)
    f,           \* the wrapped function: argument tuple -> what f does
    saved,       \* the dict saved of the closure
    calls,       \* the calls of newfunc so far, each with its outcome
    fcalls,      \* the argument tuples f was invoked with, in order
    \* ---- take(iterable, n), nth(iterable, n, default)
    iterable, n, default,
    \* ---- flatten(nested_list)
    nested_list,
    \* ---- with ignored(*exception): body
    exception,   \* the exception types handed to ignored
    body,        \* what the body of the block raises, "none" when nothing
    pc,          \* where the block is: "with" | "body" | "exit" | "after"
    \* ---- print_duration(msg, out), as a with block or as a decorator
    form,        \* "with": with pd: ... | "call": the function pd decorates
    msg,         \* self.msg
    start,       \* self.start, Unstarted before the first __enter__
    now,         \* what time.time() returns
    stack,       \* the timed invocations in progress, the innermost last
    sink,        \* the strings handed to self.out, in order
    ended,       \* the timed invocations that ended, in order
    \* ---- the value take, nth or flatten returned
    result

ctlVars == <<status, exc>>
pipeVars == <<functions, initial, data, i, log>>
cacheVars == <<f, saved, calls, fcalls>>
seqVars == <<iterable, n, default>>
flatVars == <<nested_list>>
ignVars == <<exception, body, pc>>
durVars == <<form, msg, start, now, stack, sink, ended>>
vars == <<prog, ctlVars, pipeVars, cacheVars, seqVars, flatVars, ignVars,
          durVars, result>>

\* The values the variables of a helper hold while another one runs.
IdlePipe == functions = <<>> /\ initial = 0 /\ data = 0 /\ i = 0 /\ log = <<>>
IdleCache == f = <<>> /\ saved = <<>> /\ calls = <<>> /\ fcalls = <<>>
IdleSeq == iterable = <<>> /\ n = 0 /\ default = ""
IdleFlat == nested_list = <<>>
IdleIgn == exception = {} /\ body = "none" /\ pc = "idle"
IdleDur ==
    /\ form = "" /\ msg = "" /\ start = 0 /\ now = 0
    /\ stack = <<>> /\ sink = <<>> /\ ended = <<>>
IdleResult == result = <<>>

\* The longest pipeline handed to pipe.
MaxSteps == 3

RECURSIVE SumSet(_)
\* The sum of the values of a keyword mapping, given as a set of <<name, value>>.
SumSet(S) ==
    IF S = {} THEN 0
    ELSE LET p == CHOOSE q \in S : TRUE IN p[2] + SumSet(S \ {p})

RECURSIVE SumSeq(_)
\* The sum of the numbers of a sequence of positional arguments.
SumSeq(s) == IF s = <<>> THEN 0 ELSE Head(s).num + SumSeq(Tail(s))

(***************************************************************************)
(* Values a tuple step can carry after its callable: a number or a dict    *)
(* (a set of <<keyword, value>> pairs).                                    *)
(***************************************************************************)
Num(k) == [dict |-> FALSE, num |-> k, kw |-> {}]
Dict(m) == [dict |-> TRUE, num |-> 0, kw |-> m]

\* isinstance(x, dict)
IsDict(x) == x.dict

(***************************************************************************)
(* The callables a caller hands to pipe, and what each does when called    *)
(* as fn(first, *args, **kwargs):                                          *)
(*   inc   def inc(x): return x + 1                                        *)
(*   dbl   def dbl(x): return x * 2                                        *)
(*   add   def add(x, *a, **k): return x + sum(a) + sum(k.values())        *)
(*   pow   the builtin, called as pow(x, e) or pow(x, e, m)                *)
(*   boom  def boom(x, *a, **k): raise ValueError                          *)
(* A call whose arguments the callable does not accept raises TypeError,   *)
(* as Python does.                                                         *)
(***************************************************************************)
Callables == {"inc", "dbl", "add", "pow", "boom"}

Returned(v) == [raised |-> FALSE, val |-> v, exc |-> ""]
Raised(e) == [raised |-> TRUE, val |-> 0, exc |-> e]

Pow(first, args) ==
    IF args = <<>> \/ Len(args) > 2 \/ \E k \in 1..Len(args) : IsDict(args[k])
    THEN Raised("TypeError")
    ELSE IF args[1].num < 0 THEN Raised("ValueError")
    ELSE IF Len(args) = 1 THEN Returned(first ^ args[1].num)
    ELSE IF args[2].num = 0 THEN Raised("ValueError")
    ELSE Returned((first ^ args[1].num) % args[2].num)

CallResult(fn, first, args, kwargs) ==
    CASE fn = "inc" ->
            IF args = <<>> /\ kwargs = {} THEN Returned(first + 1)
            ELSE Raised("TypeError")
      [] fn = "dbl" ->
            IF args = <<>> /\ kwargs = {} THEN Returned(first * 2)
            ELSE Raised("TypeError")
      [] fn = "add" ->
            IF \E k \in 1..Len(args) : IsDict(args[k]) THEN Raised("TypeError")
            ELSE Returned(first + SumSeq(args) + SumSet(kwargs))
      [] fn = "pow" ->
            IF kwargs # {} THEN Raised("TypeError") ELSE Pow(first, args)
      [] OTHER -> Raised("ValueError")

\* One invocation as the log records it.
Invocation(fn, first, args, kwargs) ==
    [fn |-> fn, first |-> first, args |-> args, kwargs |-> kwargs,
     res |-> CallResult(fn, first, args, kwargs)]

(***************************************************************************)
(* A step of a pipeline: a plain callable (tuple = FALSE, rest = <<>>) or  *)
(* a tuple whose element 0 is fn and whose elements 1.. are rest.          *)
(***************************************************************************)
Plain(fn) == [tuple |-> FALSE, fn |-> fn, rest |-> <<>>]
Tuple(fn, rest) == [tuple |-> TRUE, fn |-> fn, rest |-> rest]

KW1 == {<<"k", 2>>}
KW2 == {<<"k", 1>>, <<"m", 2>>}

\* The element lists f[1:] of the tuple steps (add, ...) the model hands to pipe.
TupleRests ==
    { <<>>,
      <<Num(1), Num(3)>>,
      <<Dict(KW1)>>, <<Dict(KW2)>>,
      <<Dict(KW1), Num(1)>>,
      <<Num(1), Dict(KW1)>> }

Steps ==
    {Plain(fn) : fn \in {"inc", "dbl", "boom"}}
    \cup {Tuple("add", r) : r \in TupleRests}
    \cup {Tuple("pow", <<Num(2)>>), Tuple("pow", <<Num(2), Num(8)>>)}
    \cup {Tuple("inc", <<Num(2)>>)}

Values == {0, 3}

Pipelines == UNION {[1..k -> Steps] : k \in 0..MaxSteps}

\* for f in functions: the step of the k-th iteration (pipe.py line 76)
StepAtReversed(fs, k) == fs[Len(fs) + 1 - k]
StepAt(fs, k) == fs[k]

\* f[1:] (pipe.py line 81)
PositionalOfSkipping(fstep) == IF fstep.rest = <<>> THEN <<>> ELSE Tail(fstep.rest)
PositionalOf(fstep) == fstep.rest

\* f[1], as keywords (pipe.py line 79)
KeywordsOf(fstep) == fstep.rest[1].kw

\* What a raising call does to pipe: nothing catches it (pipe.py lines 76-84)
StatusAfterSwallowing(r) == "running"
StatusAfter(r) == IF r.res.raised THEN "raised" ELSE "running"

\* The assignment data = <call> (pipe.py lines 79, 81, 83), and the
\* propagation of what the call raises.
Assign(r) ==
    /\ log' = Append(log, r)
    /\ status' = StatusAfter(r)
    /\ data' = IF r.res.raised THEN data ELSE r.res.val
    /\ exc' = IF StatusAfter(r) = "raised" THEN r.res.exc ELSE ""

PipeLoop ==
    /\ prog = "pipe"
    /\ status = "running"
    /\ i < Len(functions)

\* else: data = f(data)                          (pipe.py lines 82-83)
PipePlain ==
    /\ PipeLoop
    /\ LET fstep == StepAt(functions, i + 1) IN
        /\ ~fstep.tuple
        /\ Assign(Invocation(fstep.fn, data, <<>>, {}))
    /\ i' = i + 1
    /\ UNCHANGED <<prog, durVars, functions, initial, cacheVars, seqVars, flatVars, ignVars, result>>

\* isinstance(f[1], dict) of a tuple of one element: IndexError (line 78)
PipeTupleShort ==
    /\ PipeLoop
    /\ LET fstep == StepAt(functions, i + 1) IN
        /\ fstep.tuple
        /\ fstep.rest = <<>>
    /\ status' = "raised"
    /\ exc' = "IndexError"
    /\ i' = i + 1
    /\ UNCHANGED <<prog, durVars, functions, initial, data, log, cacheVars, seqVars, flatVars, ignVars, result>>

\* data = f[0](data, **f[1])                     (pipe.py lines 78-79)
PipeTupleDict ==
    /\ PipeLoop
    /\ LET fstep == StepAt(functions, i + 1) IN
        /\ fstep.tuple
        /\ fstep.rest # <<>>
        /\ IsDict(fstep.rest[1])
        /\ Assign(Invocation(fstep.fn, data, <<>>, KeywordsOf(fstep)))
    /\ i' = i + 1
    /\ UNCHANGED <<prog, durVars, functions, initial, cacheVars, seqVars, flatVars, ignVars, result>>

\* data = f[0](data, *f[1:])                     (pipe.py lines 80-81)
PipeTupleArgs ==
    /\ PipeLoop
    /\ LET fstep == StepAt(functions, i + 1) IN
        /\ fstep.tuple
        /\ fstep.rest # <<>>
        /\ ~IsDict(fstep.rest[1])
        /\ Assign(Invocation(fstep.fn, data, PositionalOf(fstep), {}))
    /\ i' = i + 1
    /\ UNCHANGED <<prog, durVars, functions, initial, cacheVars, seqVars, flatVars, ignVars, result>>

\* return data                                   (pipe.py line 84)
PipeReturn ==
    /\ prog = "pipe"
    /\ status = "running"
    /\ i = Len(functions)
    /\ status' = "returned"
    /\ UNCHANGED <<prog, durVars, functions, initial, data, i, log, exc, cacheVars, seqVars, flatVars, ignVars, result>>

InitPipe ==
    /\ prog = "pipe"
    /\ functions \in Pipelines
    /\ initial \in Values
    /\ data = initial
    /\ i = 0
    /\ log = <<>>
    /\ status = "running"
    /\ exc = ""
    /\ IdleCache /\ IdleSeq /\ IdleFlat /\ IdleIgn /\ IdleResult /\ IdleDur

NextPipe == PipePlain \/ PipeTupleShort \/ PipeTupleDict \/ PipeTupleArgs \/ PipeReturn

SpecPipe == InitPipe /\ [][NextPipe]_vars


(***************************************************************************)
(* pipe: the claims                                                        *)
(***************************************************************************)
PlainOnly == \A k \in 1..Len(functions) : ~functions[k].tuple

Front(s) == SubSeq(s, 1, Len(s) - 1)

RECURSIVE Composed(_, _)
\* fn(...f1(v)...) for plain unary steps f1..fn, innermost first.
Composed(fs, v) ==
    IF fs = <<>> THEN Returned(v)
    ELSE LET inner == Composed(Front(fs), v) IN
         IF inner.raised THEN inner
         ELSE CallResult(fs[Len(fs)].fn, inner.val, <<>>, {})

\* The value step k was handed: the value before it.
Handed(k) == IF k = 1 THEN initial ELSE log[k - 1].res.val

\* C1: for plain unary steps f1..fn, pipe(v, f1, ..., fn) returns
\* fn(...f1(v)...): the k-th invocation is of step k, there is one invocation
\* per step, and each receives the previous step's output (the first, v).
C1_PipeComposes ==
    (prog = "pipe" /\ PlainOnly) =>
        /\ Len(log) = i
        /\ \A k \in 1..Len(log) :
              /\ log[k].fn = functions[k].fn
              /\ log[k].first = Handed(k)
              /\ log[k].args = <<>> /\ log[k].kwargs = {}
        /\ status = "returned" =>
              /\ Len(log) = Len(functions)
              /\ ~Composed(functions, initial).raised
              /\ data = Composed(functions, initial).val
        /\ status = "raised" => Composed(functions, initial).raised

\* pipe(3, inc, dbl, inc) returned 9 = inc(dbl(inc(3))), not dbl(inc(inc(3))).
C1_Witness ==
    /\ prog = "pipe" /\ status = "returned"
    /\ functions = <<Plain("inc"), Plain("dbl"), Plain("inc")>>
    /\ initial = 3 /\ data = 9

C3_RaiseAborts ==
    prog = "pipe" =>
        \A k \in 1..Len(log) :
            log[k].res.raised =>
                /\ status = "raised"
                /\ exc = log[k].res.exc
                /\ k = Len(log)
                /\ i = k
                /\ \A j \in 1..k :
                      /\ log[j].fn = functions[j].fn
                      /\ j < k => ~log[j].res.raised

\* pipe(0, inc, boom, dbl): inc ran, boom raised ValueError, dbl never ran.
C3_Witness ==
    /\ prog = "pipe" /\ status = "raised" /\ exc = "ValueError"
    /\ functions = <<Plain("inc"), Plain("boom"), Plain("dbl")>>
    /\ Len(log) = 2 /\ log[1].res.val = 1 /\ log[2].res.raised

(***************************************************************************)
(* cache(f): saved = {} and the closure newfunc (misc.py lines 125-134)    *)
(***************************************************************************)
\* The most calls of newfunc in one behaviour.
MaxCalls == 3

\* The positional-argument tuples newfunc is called with.
ArgTuples == {<<1>>, <<2>>, <<1, 2>>}

\* What the wrapped function does for an argument tuple: it is pure, so it
\* does the same at every call.
Outcomes == {Returned(10), Returned(20), Raised("ValueError")}

\* args in saved                                 (misc.py line 129)
InSavedNever(args) == FALSE
InSaved(args) == args \in DOMAIN saved

\* saved[args] = result                          (misc.py line 132)
StoreEvicting(args, res) == [a \in {args} |-> res]
Store(args, res) ==
    [a \in DOMAIN saved \cup {args} |-> IF a = args THEN res ELSE saved[a]]

CacheCanCall == prog = "cache" /\ Len(calls) < MaxCalls

\* if args in saved: return saved[args]          (misc.py lines 129-130)
CacheHit(args) ==
    /\ CacheCanCall
    /\ InSaved(args)
    /\ calls' = Append(calls, [args |-> args, invoked |-> FALSE,
                               res |-> Returned(saved[args])])
    /\ UNCHANGED <<prog, durVars, ctlVars, pipeVars, f, saved, fcalls, seqVars,
                   flatVars, ignVars, result>>

\* result = f(*args); saved[args] = result; return result
\*                                               (misc.py lines 131-133)
CacheMiss(args) ==
    /\ CacheCanCall
    /\ ~InSaved(args)
    /\ ~f[args].raised
    /\ fcalls' = Append(fcalls, args)
    /\ saved' = Store(args, f[args].val)
    /\ calls' = Append(calls, [args |-> args, invoked |-> TRUE,
                               res |-> Returned(f[args].val)])
    /\ UNCHANGED <<prog, durVars, ctlVars, pipeVars, f, seqVars, flatVars, ignVars, result>>

\* saved when f(*args) raises: line 132 is never reached (misc.py line 131)
SavedOnRaiseStoring(args) == Store(args, 0)
SavedOnRaise(args) == saved

\* result = f(*args) raises: the exception leaves newfunc at line 131
CacheMissRaises(args) ==
    /\ CacheCanCall
    /\ ~InSaved(args)
    /\ f[args].raised
    /\ fcalls' = Append(fcalls, args)
    /\ saved' = SavedOnRaise(args)
    /\ calls' = Append(calls, [args |-> args, invoked |-> TRUE, res |-> f[args]])
    /\ UNCHANGED <<prog, durVars, ctlVars, pipeVars, f, seqVars, flatVars,
                   ignVars, result>>

InitCache ==
    /\ prog = "cache"
    /\ status = "running" /\ exc = ""
    /\ f \in [ArgTuples -> Outcomes]
    /\ saved = <<>>
    /\ calls = <<>>
    /\ fcalls = <<>>
    /\ IdlePipe /\ IdleSeq /\ IdleFlat /\ IdleIgn /\ IdleResult /\ IdleDur

NextCache ==
    \E args \in ArgTuples : CacheHit(args) \/ CacheMiss(args) \/ CacheMissRaises(args)

SpecCache == InitCache /\ [][NextCache]_vars

(***************************************************************************)
(* cache: the claims                                                       *)
(***************************************************************************)
\* How often x occurs in the sequence s.
Count(s, x) == Cardinality({k \in 1..Len(s) : s[k] = x})

\* C4: for a pure f that returns a value for the tuple a, over any sequence
\* of calls of g = cache(f): f is invoked exactly once with a, at the first
\* call of g with a; later calls with a do not invoke f; and every call of
\* g with a returns f(a).
C4_CacheInvokesOnce ==
    prog = "cache" =>
        \A a \in ArgTuples :
            ~f[a].raised =>
                /\ Count(fcalls, a) =
                       (IF \E k \in 1..Len(calls) : calls[k].args = a THEN 1 ELSE 0)
                /\ \A k \in 1..Len(calls) :
                      calls[k].args = a =>
                          /\ calls[k].res = f[a]
                          /\ calls[k].invoked <=>
                                 (\A j \in 1..(k - 1) : calls[j].args # a)

\* g(1), g(2), g(1): f ran for (1,) and for (2,), once each, and the third
\* call returned the stored f(1).
C4_Witness ==
    /\ prog = "cache"
    /\ Len(calls) = 3
    /\ calls[1].args = <<1>> /\ calls[2].args = <<2>> /\ calls[3].args = <<1>>
    /\ f[<<1>>] = Returned(10) /\ f[<<2>>] = Returned(20)
    /\ fcalls = << <<1>>, <<2>> >>
    /\ ~calls[3].invoked /\ calls[3].res.val = 10

\* C5: a key of saved is never removed, and the value stored under a key is
\* never replaced, by any call.
C5_CacheMonotone ==
    [][prog = "cache" =>
          \A a \in DOMAIN saved : a \in DOMAIN saved' /\ saved'[a] = saved[a]]_vars

\* Three calls were made and two keys are stored: the second store kept the
\* first key, and the hit left both.
C5_Witness ==
    /\ prog = "cache"
    /\ Len(calls) = 3
    /\ DOMAIN saved = {<<1>>, <<1, 2>>}
    /\ ~calls[3].invoked

\* C14: when the wrapped f raises for an argument tuple, the call of newfunc
\* raises that same exception, saved is left as it was (nothing is stored
\* for the tuple), and every call with that tuple invokes f again.
C14_CacheRaisePropagates ==
    [][prog = "cache" =>
          /\ (Len(calls') > Len(calls) /\ calls'[Len(calls')].res.raised) =>
                LET c == calls'[Len(calls')] IN
                    /\ c.res = f[c.args]
                    /\ c.invoked
                    /\ saved' = saved
                    /\ c.args \notin DOMAIN saved'
          /\ \A a \in ArgTuples :
                f[a].raised =>
                    Count(fcalls', a) =
                        Cardinality({k \in 1..Len(calls') : calls'[k].args = a})]_vars

\* g(2), g(1), g(1) with f(2) = 20 and f(1) raising ValueError: both calls
\* g(1) invoked f and raised, and saved holds (2,) alone.
C14_Witness ==
    /\ prog = "cache"
    /\ Len(calls) = 3
    /\ calls[1].args = <<2>> /\ calls[2].args = <<1>> /\ calls[3].args = <<1>>
    /\ f[<<1>>] = Raised("ValueError")
    /\ calls[2].invoked /\ calls[3].invoked
    /\ calls[3].res = Raised("ValueError")
    /\ fcalls = << <<2>>, <<1>>, <<1>> >>
    /\ DOMAIN saved = {<<2>>}

(***************************************************************************)
(* take and nth (pipe.py lines 88-134), both over itertools.islice         *)
(***************************************************************************)
\* The longest iterable handed to take and nth.
MaxLen == 3

Elems == {"a", "b"}
Iterables == UNION {[1..k -> Elems] : k \in 0..MaxLen}

\* The counts and indices tried: from negative ones to past the end.
Counts == (0 - 2)..(MaxLen + 2)

\* The default handed to nth; Unset when the caller hands none.
Unset == "<unset>"
Defaults == {Unset, "Hello"}

\* An optional bound of islice: None, or a number.
NoBound == [none |-> TRUE, v |-> 0]
Bound(k) == [none |-> FALSE, v |-> k]

RECURSIVE ISliceItems(_, _, _, _)
\* What islice yields from s, whose head has index k: the items of index
\* begin <= k < stop, consuming s no further than stop.
ISliceItems(s, k, begin, stop) ==
    IF s = <<>> \/ (~stop.none /\ k >= stop.v) THEN <<>>
    ELSE (IF k >= begin THEN <<Head(s)>> ELSE <<>>)
         \o ISliceItems(Tail(s), k + 1, begin, stop)

\* islice(s, begin, stop): ValueError unless begin and stop are None or >= 0.
ISlice(s, begin, stop) ==
    IF begin < 0 \/ (~stop.none /\ stop.v < 0) THEN Raised("ValueError")
    ELSE Returned(ISliceItems(s, 0, begin, stop))

\* return list(islice(iterable, n))             (pipe.py line 105)
TakeOneMore(it, k) == ISlice(it, 0, Bound(k + 1))
Take(it, k) == ISlice(it, 0, Bound(k))

\* def nth(iterable, n, default=None)           (pipe.py line 109)
DefaultParam(d) == IF d = Unset THEN "None" ELSE d

\* next(iterator, d): the first item, d when there is none
NextOr(r, d) ==
    IF r.raised THEN r
    ELSE IF r.val = <<>> THEN Returned(d) ELSE Returned(Head(r.val))

\* return next(islice(iterable, n, None), default)   (pipe.py line 134)
NthFromOne(it, k, d) == NextOr(ISlice(it, k - 1, NoBound), DefaultParam(d))
NthIndexing(it, k, d) ==
    IF k < 0 THEN Raised("ValueError")
    ELSE IF k >= Len(it) THEN Raised("IndexError") ELSE Returned(it[k + 1])
Nth(it, k, d) == NextOr(ISlice(it, k, NoBound), DefaultParam(d))

\* What a finished call leaves: its value, or its exception.
Finish(r) ==
    /\ status' = IF r.raised THEN "raised" ELSE "returned"
    /\ exc' = r.exc
    /\ result' = IF r.raised THEN result ELSE r.val

TakeCall ==
    /\ prog = "take"
    /\ status = "running"
    /\ Finish(Take(iterable, n))
    /\ UNCHANGED <<prog, durVars, pipeVars, cacheVars, seqVars, flatVars, ignVars>>

NthCall ==
    /\ prog = "nth"
    /\ status = "running"
    /\ Finish(Nth(iterable, n, default))
    /\ UNCHANGED <<prog, durVars, pipeVars, cacheVars, seqVars, flatVars, ignVars>>

InitSeq ==
    /\ prog \in {"take", "nth"}
    /\ status = "running" /\ exc = ""
    /\ iterable \in Iterables
    /\ n \in Counts
    /\ default \in (IF prog = "nth" THEN Defaults ELSE {""})
    /\ IdlePipe /\ IdleCache /\ IdleFlat /\ IdleIgn /\ IdleResult /\ IdleDur

NextSeq == TakeCall \/ NthCall

SpecSeq == InitSeq /\ [][NextSeq]_vars

(***************************************************************************)
(* take, nth: the claims                                                   *)
(***************************************************************************)
Min(a, b) == IF a <= b THEN a ELSE b

Finished == status # "running"

\* C6: for n >= 0 and a finite sequence s, take returns min(n, len(s))
\* items, the first min(n, len(s)) of s in their order; n = 0 gives the
\* empty list.
C6_TakePrefix ==
    (prog = "take" /\ Finished /\ n >= 0) =>
        /\ status = "returned"
        /\ Len(result) = Min(n, Len(iterable))
        /\ \A k \in 1..Min(n, Len(iterable)) : result[k] = iterable[k]
        /\ n = 0 => result = <<>>

\* take(["b", "a", "b"], 2) returned ["b", "a"].
C6_Witness ==
    /\ prog = "take" /\ status = "returned"
    /\ iterable = <<"b", "a", "b">> /\ n = 2
    /\ result = <<"b", "a">>

\* C7: for n >= 0, nth returns the item at zero-based position n when s has
\* at least n + 1 items and the default otherwise; the default is None when
\* the caller hands none.
C7_NthOrDefault ==
    (prog = "nth" /\ Finished /\ n >= 0) =>
        /\ status = "returned"
        /\ Len(iterable) >= n + 1 => result = iterable[n + 1]
        /\ (Len(iterable) < n + 1 /\ default # Unset) => result = default
        /\ (Len(iterable) < n + 1 /\ default = Unset) => result = "None"

\* nth(["a", "a", "b"], 2) returned "b", the item at position 2.
C7_Witness ==
    /\ prog = "nth" /\ status = "returned"
    /\ iterable = <<"a", "a", "b">> /\ n = 2 /\ default = Unset
    /\ result = "b"

\* An index no item of s has, a count s cannot fill.
OutOfRange == IF prog = "nth" THEN n < 0 \/ n >= Len(iterable)
              ELSE n < 0 \/ n > Len(iterable)

MaxNodes == 5

IntNode(k) == [kind |-> "int", val |-> <<k>>, items |-> <<>>]
StrNode(cs) == [kind |-> "str", val |-> cs, items |-> <<>>]
ListNode(xs) == [kind |-> "list", val |-> <<>>, items |-> xs]

\* 1, 2 and the string "ab"
Atoms == {IntNode(1), IntNode(2), StrNode(<<1, 2>>)}

RECURSIVE NodesOf(_), ForestsOf(_)
\* The nodes made of exactly k nodes.
NodesOf(k) ==
    (IF k = 1 THEN Atoms ELSE {}) \cup {ListNode(xs) : xs \in ForestsOf(k - 1)}
\* The sequences of nodes made of exactly k nodes altogether.
ForestsOf(k) ==
    IF k = 0 THEN {<<>>}
    ELSE UNION {{<<x>> \o xs : x \in NodesOf(j), xs \in ForestsOf(k - j)} : j \in 1..k}

NestedLists == UNION {NodesOf(k) : k \in 1..MaxNodes}

\* hasattr(x, "__iter__")
HasIter(x) == x.kind \in {"list", "str"}

\* isinstance(x, str)
IsStr(x) == x.kind = "str"

\* for e in x: the items of a list, the characters of a string
IterOf(x) ==
    IF x.kind = "list" THEN x.items
    ELSE [k \in 1..Len(x.val) |-> StrNode(<<x.val[k]>>)]

\* result.extend(more)                          (misc.py line 187)
ExtendFront(res, more) == more \o res
Extend(res, more) == res \o more

RECURSIVE Flatten(_), FlattenLoop(_, _)
\* def flatten(nested_list)                     (misc.py lines 182-188)
Flatten(x) ==
    IF ~HasIter(x) \/ IsStr(x) THEN <<x>>
    ELSE FlattenLoop(IterOf(x), <<>>)
\* for e in nested_list: result.extend(flatten(e))   (misc.py lines 186-187)
FlattenLoop(es, res) ==
    IF es = <<>> THEN res
    ELSE FlattenLoop(Tail(es), Extend(res, Flatten(Head(es))))

FlattenCall ==
    /\ prog = "flatten"
    /\ status = "running"
    /\ Finish(Returned(Flatten(nested_list)))
    /\ UNCHANGED <<prog, durVars, pipeVars, cacheVars, seqVars, flatVars, ignVars>>

InitFlatten ==
    /\ prog = "flatten"
    /\ status = "running" /\ exc = ""
    /\ nested_list \in NestedLists
    /\ IdlePipe /\ IdleCache /\ IdleSeq /\ IdleIgn /\ IdleResult /\ IdleDur

NextFlatten == FlattenCall

SpecFlatten == InitFlatten /\ [][NextFlatten]_vars

(***************************************************************************)
(* flatten: the claim                                                      *)
(***************************************************************************)
\* A leaf: an element that is not iterable, or is a string.
IsLeaf(x) == x.kind = "int" \/ x.kind = "str"

RECURSIVE LeafPaths(_)
\* The positions of the leaves of x: a position is the list of indices that
\* leads from x down to the leaf.
LeafPaths(x) ==
    IF IsLeaf(x) THEN {<<>>}
    ELSE UNION {{<<k>> \o q : q \in LeafPaths(x.items[k])} : k \in 1..Len(x.items)}

RECURSIVE NodeAt(_, _)
NodeAt(x, q) == IF q = <<>> THEN x ELSE NodeAt(x.items[Head(q)], Tail(q))

RECURSIVE Before(_, _)
\* q comes before r depth-first, left to right.
Before(q, r) ==
    IF q = <<>> \/ r = <<>> THEN FALSE
    ELSE IF Head(q) # Head(r) THEN Head(q) < Head(r)
    ELSE Before(Tail(q), Tail(r))

\* The place of the leaf at q among the leaves of x, counted from 1.
Rank(x, q) == 1 + Cardinality({r \in LeafPaths(x) : Before(r, q)})

\* C9: flatten(x) is the list of the leaves of x in depth-first,
\* left-to-right order, a leaf being an element that is not iterable or is
\* a string (kept whole); a top-level leaf v gives [v]; empty lists give no
\* element.
C9_FlattenLeaves ==
    (prog = "flatten" /\ Finished) =>
        /\ status = "returned"
        /\ Len(result) = Cardinality(LeafPaths(nested_list))
        /\ \A q \in LeafPaths(nested_list) :
              result[Rank(nested_list, q)] = NodeAt(nested_list, q)
        /\ IsLeaf(nested_list) => result = <<nested_list>>

\* flatten([[], 1, ["ab"]]) returned [1, "ab"]: the string whole, the
\* empty list giving nothing.
C9_Witness ==
    /\ prog = "flatten" /\ status = "returned"
    /\ nested_list = ListNode(<<ListNode(<<>>), IntNode(1),
                                ListNode(<<StrNode(<<1, 2>>)>>)>>)
    /\ result = <<IntNode(1), StrNode(<<1, 2>>)>>

(***************************************************************************)
(* ignored (misc.py lines 138-153): a generator under contextmanager       *)
(***************************************************************************)
\* The exception classes of the model, each with its base class.
Classes == {"BaseException", "KeyboardInterrupt", "Exception", "ValueError",
            "OSError", "FileNotFoundError"}

Base(c) ==
    CASE c = "KeyboardInterrupt" -> "BaseException"
      [] c = "Exception" -> "BaseException"
      [] c = "ValueError" -> "Exception"
      [] c = "OSError" -> "Exception"
      [] c = "FileNotFoundError" -> "OSError"
      [] OTHER -> "BaseException"

RECURSIVE IsSubclass(_, _)
\* issubclass(c, t)
IsSubclass(c, t) ==
    IF c = t THEN TRUE
    ELSE IF c = "BaseException" THEN FALSE
    ELSE IsSubclass(Base(c), t)

\* except exception: whether the clause catches an exception of class c
\*                                               (misc.py line 152)
CatchesAll(c) == TRUE
Catches(c) == \E t \in exception : IsSubclass(c, t)

\* with ignored(...): the generator runs to its yield, inside the try
\*                                               (misc.py lines 150-151)
IgnoredEnter ==
    /\ prog = "ignored"
    /\ pc = "with"
    /\ pc' = "body"
    /\ UNCHANGED <<prog, durVars, ctlVars, pipeVars, cacheVars, seqVars, flatVars,
                   exception, body, result>>

\* The body of the block runs: it raises body, or nothing.
IgnoredBody ==
    /\ prog = "ignored"
    /\ pc = "body"
    /\ pc' = "exit"
    /\ exc' = IF body = "none" THEN "" ELSE body
    /\ UNCHANGED <<prog, durVars, status, pipeVars, cacheVars, seqVars, flatVars,
                   exception, body, result>>

\* The body raised nothing: the generator resumes after the yield and ends.
IgnoredExitClean ==
    /\ prog = "ignored"
    /\ pc = "exit"
    /\ exc = ""
    /\ pc' = "after"
    /\ status' = "returned"
    /\ UNCHANGED <<prog, durVars, exc, pipeVars, cacheVars, seqVars, flatVars,
                   exception, body, result>>

\* The body raised: the exception is thrown into the generator at the yield;
\* except exception: pass catches it        (misc.py lines 152-153)
IgnoredExitCaught ==
    /\ prog = "ignored"
    /\ pc = "exit"
    /\ exc # ""
    /\ Catches(exc)
    /\ pc' = "after"
    /\ status' = "returned"
    /\ exc' = ""
    /\ UNCHANGED <<prog, durVars, pipeVars, cacheVars, seqVars, flatVars, exception,
                   body, result>>

\* The body raised and the clause does not catch it: it leaves the block.
IgnoredExitPropagates ==
    /\ prog = "ignored"
    /\ pc = "exit"
    /\ exc # ""
    /\ ~Catches(exc)
    /\ pc' = "after"
    /\ status' = "raised"
    /\ UNCHANGED <<prog, durVars, exc, pipeVars, cacheVars, seqVars, flatVars,
                   exception, body, result>>

InitIgnored ==
    /\ prog = "ignored"
    /\ status = "running" /\ exc = ""
    /\ exception \in SUBSET Classes
    /\ body \in Classes \cup {"none"}
    /\ pc = "with"
    /\ IdlePipe /\ IdleCache /\ IdleSeq /\ IdleFlat /\ IdleResult /\ IdleDur

NextIgnored ==
    \/ IgnoredEnter
    \/ IgnoredBody
    \/ IgnoredExitClean
    \/ IgnoredExitCaught
    \/ IgnoredExitPropagates

SpecIgnored == InitIgnored /\ [][NextIgnored]_vars

(***************************************************************************)
(* ignored: the claim                                                      *)
(***************************************************************************)
\* The classes an exception of class c is an instance of.
InstanceOf(c) ==
    CASE c = "BaseException" -> {"BaseException"}
      [] c = "KeyboardInterrupt" -> {"KeyboardInterrupt", "BaseException"}
      [] c = "Exception" -> {"Exception", "BaseException"}
      [] c = "ValueError" -> {"ValueError", "Exception", "BaseException"}
      [] c = "OSError" -> {"OSError", "Exception", "BaseException"}
      [] OTHER -> {"FileNotFoundError", "OSError", "Exception", "BaseException"}

\* C10: under ignored(T1, ..., Tk), a body that raises an exception matching
\* one of T1..Tk has it discarded and execution continues after the block;
\* one that raises an exception matching none has it leave the block; one
\* that raises nothing completes normally.
C10_IgnoredMatches ==
    (prog = "ignored" /\ pc = "after") =>
        /\ body = "none" => (status = "returned" /\ exc = "")
        /\ (body # "none" /\ InstanceOf(body) \cap exception # {}) =>
              (status = "returned" /\ exc = "")
        /\ (body # "none" /\ InstanceOf(body) \cap exception = {}) =>
              (status = "raised" /\ exc = body)

\* with ignored(OSError, ValueError): raise FileNotFoundError  -- discarded.
C10_Witness ==
    /\ prog = "ignored" /\ pc = "after"
    /\ exception = {"OSError", "ValueError"} /\ body = "FileNotFoundError"
    /\ status = "returned" /\ exc = ""

\* with ignored(OSError): raise ValueError  -- leaves the block.
C10_WitnessPropagates ==
    /\ prog = "ignored" /\ pc = "after"
    /\ exception = {"OSError"} /\ body = "ValueError"
    /\ status = "raised" /\ exc = "ValueError"

(***************************************************************************)
(* print_duration (misc.py lines 8-89): one instance, used as the guard of *)
(* a with block or as the decorator of a function.  The timed code may     *)
(* let time pass, enter the same instance again (a nested with, a          *)
(* decorated function that calls itself), return or raise.                 *)
(***************************************************************************)
\* The most timed invocations begun in one behaviour.
MaxTimed == 3

\* The latest reading of the clock.
MaxTime == 3

\* msg=None, msg="" and a message
NoMsg == "<None>"
Msgs == {NoMsg, "", "f took"}

\* What the decorated function returns; a with block returns nothing.
NoValue == "<nothing>"
Rets == IF form = "call" THEN {"r1", "r2"} ELSE {NoValue}

\* What the timed code raises.
Excs == {"ValueError", "KeyError"}

Top == stack[Len(stack)]

\* The stack with its innermost invocation replaced by fr.
WithTop(fr) == [stack EXCEPT ![Len(stack)] = fr]

Pop == SubSeq(stack, 1, Len(stack) - 1)

\* The timed invocations begun so far.
Begun == Len(stack) + Len(ended)

\* if self.msg                                   (misc.py line 75)
Truthy(m) == m # NoMsg /\ m # ""

\* duration = time.time() - self.start           (misc.py line 74)
Duration == now - start

\* The string handed to self.out                 (misc.py lines 75-78)
Report(d) == [label |-> IF Truthy(msg) THEN msg ELSE "Duration", duration |-> d]

\* self.out(...) by the innermost invocation: the report, with the
\* invocation that made it and the time since that invocation's entry.
Emit ==
    Append(sink, [report |-> Report(Duration), by |-> Top.id,
                  elapsed |-> now - Top.entered])

\* What __exit__ returns: None, so the with statement suppresses nothing
\*                                               (misc.py lines 73-78)
ExitResultTrue == TRUE
ExitResult == FALSE

\* return result                                 (misc.py lines 84-87)
WrappedResult(r) == r

\* How an invocation ended.
Ended(outcome, fret, ret, bodyexc, e) ==
    [id |-> Top.id, outcome |-> outcome, fret |-> fret, ret |-> ret,
     bodyexc |-> bodyexc, exc |-> e]

\* The innermost invocation ends normally with ret: its caller goes on.
LeaveReturning(ret) ==
    /\ stack' = Pop
    /\ status' = IF Len(stack) = 1 THEN "returned" ELSE status
    /\ result' = IF Len(stack) = 1 THEN ret ELSE result
    /\ exc' = exc

\* The innermost invocation ends with the exception e: its caller gets e.
LeaveRaising(e) ==
    /\ stack' = IF Len(stack) = 1 THEN Pop
                 ELSE [Pop EXCEPT ![Len(stack) - 1].phase = "handler",
                                  ![Len(stack) - 1].inbox = e]
    /\ status' = IF Len(stack) = 1 THEN "raised" ELSE status
    /\ exc' = IF Len(stack) = 1 THEN e ELSE exc
    /\ result' = result

PdRunning == prog = "duration" /\ status = "running"

\* __enter__: self.start = time.time()          (misc.py lines 70-71, 83)
PdEnter ==
    /\ PdRunning
    /\ Begun < MaxTimed
    /\ \/ stack = <<>> /\ ended = <<>>
       \/ stack # <<>> /\ Top.phase = "body"
    /\ start' = now
    /\ stack' = Append(stack, [id |-> Begun + 1, entered |-> now,
                               phase |-> "body", inbox |-> ""])
    /\ UNCHANGED <<prog, ctlVars, pipeVars, cacheVars, seqVars, flatVars,
                   ignVars, form, msg, now, sink, ended, result>>

\* Time passes while the timed code runs.
PdTick ==
    /\ PdRunning
    /\ stack # <<>> /\ Top.phase = "body"
    /\ now < MaxTime
    /\ now' = now + 1
    /\ UNCHANGED <<prog, ctlVars, pipeVars, cacheVars, seqVars, flatVars,
                   ignVars, form, msg, start, stack, sink, ended, result>>

\* The timed code ends normally with r: __exit__(None, None, None) reports;
\* the decorator returns result                  (misc.py lines 73-78, 84-87)
PdReturn(r) ==
    /\ PdRunning
    /\ stack # <<>> /\ Top.phase = "body"
    /\ sink' = Emit
    /\ ended' = Append(ended, Ended("returned", r, WrappedResult(r), "", ""))
    /\ LeaveReturning(WrappedResult(r))
    /\ UNCHANGED <<prog, pipeVars, cacheVars, seqVars, flatVars, ignVars,
                   form, msg, start, now>>

\* The body of the with block raises e (its own, or one it got from a nested
\* invocation and does not catch): __exit__(type, value, traceback) reports
\* and returns None, so e leaves the block      (misc.py lines 73-78)
PdRaiseWith(e) ==
    /\ PdRunning
    /\ form = "with"
    /\ stack # <<>>
    /\ \/ Top.phase = "body"
       \/ Top.phase = "handler" /\ e = Top.inbox
    /\ sink' = Emit
    /\ IF ExitResult
       THEN /\ ended' = Append(ended, Ended("returned", NoValue, NoValue, e, ""))
            /\ LeaveReturning(NoValue)
       ELSE /\ ended' = Append(ended, Ended("raised", NoValue, NoValue, e, e))
            /\ LeaveRaising(e)
    /\ UNCHANGED <<prog, pipeVars, cacheVars, seqVars, flatVars, ignVars,
                   form, msg, start, now>>

\* func(*args) raises e (its own, or one it got from a nested call and does
\* not catch): e leaves wrapped_func at line 84, before line 86
\*                                               (misc.py lines 82-87)
PdRaiseCall(e) ==
    /\ PdRunning
    /\ form = "call"
    /\ stack # <<>>
    /\ \/ Top.phase = "body"
       \/ Top.phase = "handler" /\ e = Top.inbox
    /\ ended' = Append(ended, Ended("raised", NoValue, NoValue, e, e))
    /\ LeaveRaising(e)
    /\ UNCHANGED <<prog, pipeVars, cacheVars, seqVars, flatVars, ignVars,
                   form, msg, start, now, sink>>

\* The timed code catches the exception a nested invocation raised, and
\* goes on.
PdCatch ==
    /\ PdRunning
    /\ stack # <<>> /\ Top.phase = "handler"
    /\ stack' = WithTop([Top EXCEPT !.phase = "body", !.inbox = ""])
    /\ UNCHANGED <<prog, ctlVars, pipeVars, cacheVars, seqVars, flatVars,
                   ignVars, form, msg, start, now, sink, ended, result>>

\* __init__(msg, out)                            (misc.py lines 66-68)
InitDuration ==
    /\ prog = "duration"
    /\ status = "running" /\ exc = ""
    /\ form \in {"with", "call"}
    /\ msg \in Msgs
    /\ start = 0 - 1
    /\ now = 0
    /\ stack = <<>>
    /\ sink = <<>>
    /\ ended = <<>>
    /\ IdlePipe /\ IdleCache /\ IdleSeq /\ IdleFlat /\ IdleIgn /\ IdleResult

NextDuration ==
    \/ PdEnter
    \/ PdTick
    \/ PdCatch
    \/ \E r \in Rets : PdReturn(r)
    \/ \E e \in Excs : PdRaiseWith(e) \/ PdRaiseCall(e)

SpecDuration == InitDuration /\ [][NextDuration]_vars

(***************************************************************************)
(* print_duration: the claims                                              *)
(***************************************************************************)
\* The reports the invocation id made.
ReportsBy(id) == {j \in 1..Len(sink) : sink[j].by = id}

\* C11: as a decorator, every call of the wrapped function returns exactly
\* what f returned and hands exactly one duration message to the sink.
C11_DecoratorReturnsAndReports ==
    (prog = "duration" /\ form = "call") =>
        \A k \in 1..Len(ended) :
            /\ ended[k].outcome = "returned" => ended[k].ret = ended[k].fret
            /\ Cardinality(ReportsBy(ended[k].id)) = 1

\* C12: in the with form and in the decorator form, the duration report is
\* handed to the sink on every exit of the timed code, an exit by an
\* exception included.
C12_ReportOnEveryExit ==
    prog = "duration" =>
        \A k \in 1..Len(ended) : ReportsBy(ended[k].id) # {}

\* C13: the elapsed time an invocation reports at its exit is the time since
\* that same invocation's entry, also when invocations of one instance
\* nest.
C13_OwnStartTimestamp ==
    prog = "duration" =>
        \A j \in 1..Len(sink) : sink[j].report.duration = sink[j].elapsed

Init ==
    InitPipe \/ InitCache \/ InitSeq \/ InitFlatten \/ InitIgnored \/ InitDuration

Next ==
    NextPipe \/ NextCache \/ NextSeq \/ NextFlatten \/ NextIgnored \/ NextDuration

Spec == Init /\ [][Next]_vars
====
